---- MODULE Spec2Model ----
(***************************************************************************)
(* Model of the HOA bylaws backend: the FastAPI handlers of                *)
(* backend/main.py (ask_question, upload_bylaws, submit_change_request)    *)
(* and the RAGService object of backend/rag_service.py (_initialize,       *)
(* _initialize_qa_chain, index_document, query).                           *)
(*                                                                         *)
(* One action is one run of a handler (or of one of its continuations) on  *)
(* the asyncio event loop, or one step of a worker thread of the           *)
(* ThreadPoolExecutor.  The event loop is single threaded: a handler that  *)
(* does not await runs to completion before any timer or continuation is   *)
(* processed.                                                              *)
(***************************************************************************)
EXTENDS Integers, Sequences, FiniteSets, TLC

VARIABLES
    cfg,            \* the .env configuration: which constructors succeed
    embeddings,     \* RAGService.embeddings is not None
    llm,            \* RAGService.llm is not None
    vectorstore,    \* RAGService.vectorstore: [present, chunks]
    qa_chain,       \* RAGService.qa_chain is not None
    faiss_index,    \* ./faiss_index on disk: [present, chunks]
    documents_dir,  \* documents/: [exists, files]
    requests_dir,   \* requests/: file name -> request_data
    now,            \* wall clock, in seconds
    ask,            \* the POST /api/ask requests, by slot
    queue,          \* the executor's work queue (FIFO of ask slots)
    orphans,        \* worker threads still running a cancelled request's call
    submitted,      \* the ChangeRequestResponses returned so far
    lastOp          \* the HTTP response given in the last step, if any

vars == <<cfg, embeddings, llm, vectorstore, qa_chain, faiss_index,
          documents_dir, requests_dir, now, ask, queue, orphans, submitted,
          lastOp>>

(***************************************************************************)
(* Bounds of the model.                                                    *)
(***************************************************************************)
MaxAsk == 2        \* ask requests in flight at one time
MaxChunks == 3     \* chunks held by the in-memory index
MaxSubmit == 2     \* change requests over a run
MaxSeconds == 1    \* the clock is followed second by second up to here
MaxTime == 121     \* no request's deadline lies beyond this
MaxIndexSecs == 1  \* longest time one index_document call keeps the loop busy

(***************************************************************************)
(* Program constants.                                                      *)
(***************************************************************************)
ask_timeout == 120   \* asyncio.wait_for(..., timeout=120.0)
max_workers == 3     \* ThreadPoolExecutor(max_workers=3)
retriever_k == 2     \* as_retriever(search_kwargs={"k": 2})

(***************************************************************************)
(* Inputs.  A file name is a sequence of characters; a content is the      *)
(* sequence of its pages, a page being the topic its text is about (a      *)
(* negative page is one PyPDFLoader cannot parse); a question is a topic.  *)
(***************************************************************************)
PdfSuffix == <<".", "p", "d", "f">>
A_pdf == <<"a">> \o PdfSuffix
B_pdf == <<"b">> \o PdfSuffix
A_txt == <<"a", ".", "t", "x", "t">>
A_PDF == <<"a", ".", "P", "D", "F">>
Uploads ==
    {[filename |-> A_pdf, content |-> <<3, 1>>],
     [filename |-> B_pdf, content |-> <<1>>],
     [filename |-> A_pdf, content |-> <<-1>>],
     [filename |-> B_pdf, content |-> << >>],
     [filename |-> A_txt, content |-> <<1>>],
     [filename |-> A_PDF, content |-> <<1>>],
     [filename |-> A_txt, content |-> << >>]}
Questions == {1}
Homeowners == {"ann", "bob"}
Fractions == {0, 1}   \* the sub-second part of datetime.now()

NoStore == [present |-> FALSE, chunks |-> << >>]
NoDir == [exists |-> FALSE, files |-> << >>]

(***************************************************************************)
(* backend/main.py: upload_bylaws' file-name test and file path.           *)
(***************************************************************************)
\* A file-name test that looks at the length only.
EndsWithLengthOnly(s, suffix) == Len(s) >= Len(suffix)

EndsWith(s, suffix) ==
    /\ Len(s) >= Len(suffix)
    /\ SubSeq(s, Len(s) - Len(suffix) + 1, Len(s)) = suffix

FilePath(filename) == <<"documents", filename>>

Basename(path) == path[Len(path)]

WriteFile(dir, name, data) ==
    [exists |-> TRUE,
     files |-> [n \in DOMAIN dir.files \cup {name} |->
                  IF n = name THEN data ELSE dir.files[n]]]

(***************************************************************************)
(* backend/rag_service.py: RAGService.                                     *)
(***************************************************************************)
\* loader.load() and split_documents(): one chunk per page, carrying the
\* metadata query reads back (source, page).
LoaderFails(content) == \E i \in DOMAIN content : content[i] < 0

SplitDocuments(path, content) ==
    [i \in DOMAIN content |->
        [source |-> path, page |-> i - 1, topic |-> content[i]]]

\* _initialize_qa_chain: the chain is built only with an llm and a vectorstore;
\* otherwise the method returns and qa_chain keeps its value.
\* A chain that is never rebuilt after an upload.
InitializeQaChainSkipped(l, vs, chain) == chain

InitializeQaChain(l, vs, chain) ==
    IF ~l \/ ~vs.present THEN chain ELSE TRUE

\* _initialize, run by the constructor: the object's fields after it, from
\* the configuration and the persist directory.  A constructor that raises
\* leaves every later field at the None of __init__.
Initialize(c, disk) ==
    IF ~c.embOk
    THEN [embeddings |-> FALSE, llm |-> FALSE, vectorstore |-> NoStore,
          qa_chain |-> FALSE]
    ELSE IF ~c.llmOk
    THEN [embeddings |-> TRUE, llm |-> FALSE, vectorstore |-> NoStore,
          qa_chain |-> FALSE]
    ELSE IF disk.present
    THEN [embeddings |-> TRUE, llm |-> TRUE, vectorstore |-> disk,
          qa_chain |-> InitializeQaChain(TRUE, disk, FALSE)]
    ELSE [embeddings |-> TRUE, llm |-> TRUE, vectorstore |-> NoStore,
          qa_chain |-> FALSE]

\* is_initialized
is_initialized == qa_chain

\* The vectorstore after "Add to vectorstore": add_documents mutates the
\* store in place, FAISS.from_documents makes the first one.
AddToVectorstore(vs, chunks) ==
    IF vs.present
    THEN [present |-> TRUE, chunks |-> vs.chunks \o chunks]
    ELSE [present |-> TRUE, chunks |-> chunks]

\* index_document(file_path): what it leaves in the object and on disk, and
\* whether it raised.  saveOk is whether save_local could write.
IndexDocument(path, content, saveOk, emb, l, vs, chain, disk) ==
    IF LoaderFails(content)
    THEN [raised |-> TRUE, vectorstore |-> vs, qa_chain |-> chain,
          faiss_index |-> disk]
    ELSE IF ~vs.present /\ ~emb
    THEN [raised |-> TRUE, vectorstore |-> vs, qa_chain |-> chain,
          faiss_index |-> disk]
    ELSE LET added == AddToVectorstore(vs, SplitDocuments(path, content))
         IN  IF ~saveOk
             THEN [raised |-> TRUE, vectorstore |-> added, qa_chain |-> chain,
                   faiss_index |-> disk]
             ELSE [raised |-> FALSE, vectorstore |-> added,
                   qa_chain |-> InitializeQaChain(l, added, chain),
                   faiss_index |-> added]

\* The retriever: the k chunks nearest to the question, nearest first, ties
\* by position in the index.
Dist(q, c) == IF q >= c.topic THEN q - c.topic ELSE c.topic - q

Closer(q, chunks, i, j) ==
    \/ Dist(q, chunks[i]) < Dist(q, chunks[j])
    \/ Dist(q, chunks[i]) = Dist(q, chunks[j]) /\ i < j

Rank(q, chunks, i) ==
    Cardinality({j \in DOMAIN chunks : Closer(q, chunks, j, i)})

Retrieve(q, chunks) ==
    LET n == IF Len(chunks) < retriever_k THEN Len(chunks) ELSE retriever_k
    IN  [m \in 1..n |->
            chunks[CHOOSE i \in DOMAIN chunks : Rank(q, chunks, i) = m - 1]]

\* query's "sources": list(set(f"{basename(source)} (Page {page + 1})")).
Sources(docs) ==
    {<<Basename(docs[i].source), docs[i].page + 1>> : i \in DOMAIN docs}

(***************************************************************************)
(* backend/main.py: submit_change_request.  datetime.now() is a second and *)
(* a sub-second part; strftime('%Y%m%d%H%M%S') keeps the second only,      *)
(* isoformat() keeps both.                                                 *)
(***************************************************************************)
DatetimeNow(frac) == [sec |-> now, frac |-> frac]

Strftime(dt) == dt.sec

Isoformat(dt) == <<dt.sec, dt.frac>>

RequestId(dt) == <<"REQ-", Strftime(dt)>>

RequestFile(request_id) == request_id \o <<".json">>

(***************************************************************************)
(* State after construction: rag_service = RAGService() at import, with    *)
(* empty persist, documents and requests directories.                      *)
(***************************************************************************)
Configs == {c \in [embOk : BOOLEAN, llmOk : BOOLEAN] : c.llmOk => c.embOk}

IdleAsk ==
    [pc |-> "idle", question |-> 0, deadline |-> 0, job |-> "none",
     ctx |-> << >>, docs |-> << >>]

\* What a handler answered: the HTTP status and detail; for /api/ask also
\* the request it answers (with the documents its two retrievals returned),
\* the sources of the Answer and the time of the response.
Response(op, status, detail) ==
    [op |-> op, status |-> status, detail |-> detail, request |-> IdleAsk,
     sources |-> {}, at |-> 0]

AskResponse(req, status, detail, sources) ==
    [op |-> "ask", status |-> status, detail |-> detail, request |-> req,
     sources |-> sources, at |-> now]

NoOp == Response("none", 0, "")

Init ==
    /\ cfg \in Configs
    /\ faiss_index = NoStore
    /\ embeddings = Initialize(cfg, faiss_index).embeddings
    /\ llm = Initialize(cfg, faiss_index).llm
    /\ vectorstore = Initialize(cfg, faiss_index).vectorstore
    /\ qa_chain = Initialize(cfg, faiss_index).qa_chain
    /\ documents_dir = NoDir
    /\ requests_dir = NoDir
    /\ now = 0
    /\ ask = [r \in 1..MaxAsk |-> IdleAsk]
    /\ queue = << >>
    /\ orphans = 0
    /\ submitted = << >>
    /\ lastOp = NoOp

InFlight(r) == ask[r].pc \in {"answer", "docs"}

Deadlines == {ask[r].deadline : r \in {x \in DOMAIN ask : InFlight(x)}}

\* The clock is followed second by second at first, and while a timer is armed.
ClockFollowed == now < MaxSeconds \/ Deadlines # {}

\* Worker threads inside a call.
Busy == Cardinality({r \in DOMAIN ask : ask[r].job = "running"}) + orphans

(***************************************************************************)
(* POST /api/upload-bylaws.  Nothing of the service is read or written     *)
(* before "await file.read()", so the handler is one step.  index_document *)
(* has no await: its embedding and saving keep the event loop busy for     *)
(* secs seconds, and no timer or continuation runs meanwhile.  (A call     *)
(* that adds nothing to the index is taken to be instantaneous.)           *)
(***************************************************************************)
upload_bylaws(filename, content, saveOk, secs) ==
    /\ Len(vectorstore.chunks) + Len(content) <= MaxChunks
    /\ now + secs <= MaxTime
    /\ secs > 0 => ClockFollowed
    /\ IF ~EndsWith(filename, PdfSuffix)
       THEN /\ secs = 0 /\ saveOk
            /\ lastOp' = Response("upload", 400, "Only PDF files are allowed")
            /\ UNCHANGED <<vectorstore, qa_chain, faiss_index, documents_dir, now>>
       ELSE IF Len(content) = 0
       THEN /\ secs = 0 /\ saveOk
            /\ lastOp' = Response("upload", 400, "Uploaded file is empty")
            /\ documents_dir' = [documents_dir EXCEPT !.exists = TRUE]
            /\ UNCHANGED <<vectorstore, qa_chain, faiss_index, now>>
       ELSE LET res == IndexDocument(FilePath(filename), content, saveOk,
                                     embeddings, llm, vectorstore, qa_chain,
                                     faiss_index)
            IN  /\ res.vectorstore = vectorstore => secs = 0 /\ saveOk
                /\ documents_dir' = WriteFile(documents_dir, filename, content)
                /\ vectorstore' = res.vectorstore
                /\ qa_chain' = res.qa_chain
                /\ faiss_index' = res.faiss_index
                /\ now' = now + secs
                /\ lastOp' = IF res.raised
                             THEN Response("upload", 500, "Error processing document")
                             ELSE Response("upload", 200, "uploaded and indexed successfully")
    /\ UNCHANGED <<cfg, embeddings, llm, requests_dir, ask, queue, orphans,
                   submitted>>

(***************************************************************************)
(* POST /api/submit-request.  The handler has no await: one step.          *)
(***************************************************************************)
submit_change_request(name, frac) ==
    /\ Len(submitted) < MaxSubmit
    /\ LET request_id == RequestId(DatetimeNow(frac))
           request_data == [request_id |-> request_id,
                            homeowner_name |-> name,
                            status |-> "submitted",
                            submitted_at |-> Isoformat(DatetimeNow(frac))]
       IN  /\ requests_dir' = WriteFile(requests_dir, RequestFile(request_id),
                                        request_data)
           /\ submitted' = Append(submitted, [request_id |-> request_id,
                                              data |-> request_data])
    /\ lastOp' = Response("submit", 200, "submitted")
    /\ UNCHANGED <<cfg, embeddings, llm, vectorstore, qa_chain, faiss_index,
                   documents_dir, now, ask, queue, orphans>>

(***************************************************************************)
(* POST /api/ask: ask_question awaiting wait_for(query(question), 120).    *)
(* A slot holds a request from its arrival to its response; a request      *)
(* takes the lowest free slot.                                             *)
(*                                                                         *)
(* wait_for wakes on its timer or on query's completion, whichever the     *)
(* loop processes first, and returns query's result if query is done by    *)
(* then.  With the loop idle the timer is processed as soon as it is due   *)
(* (Tick and Sleep stop at a deadline).  After the loop was kept busy past *)
(* a deadline, the completion of an executor call that ended meanwhile is  *)
(* queued ahead of the timer: query may then still return or raise         *)
(* (QueryReturn, QueryRaise) before QueryTimeout is taken.                 *)
(***************************************************************************)
\* query without its test of qa_chain: the call goes to the executor anyway.
ask_question_untested(r, q) ==
    /\ ~InFlight(r)
    /\ \A x \in 1..(r - 1) : InFlight(x)
    /\ now + ask_timeout <= MaxTime
    /\ ask' = [ask EXCEPT ![r] =
          [IdleAsk EXCEPT !.pc = "answer", !.question = q,
                    !.deadline = now + ask_timeout, !.job = "queued"]]
    /\ queue' = Append(queue, r)
    /\ lastOp' = NoOp
    /\ UNCHANGED <<cfg, embeddings, llm, vectorstore, qa_chain, faiss_index,
                   documents_dir, requests_dir, now, orphans, submitted>>

\* The request arrives.  query tests qa_chain before its try block; otherwise
\* it hands qa_chain.invoke to the executor and wait_for arms its timer.
ask_question(r, q) ==
    /\ ~InFlight(r)
    /\ \A x \in 1..(r - 1) : InFlight(x)
    /\ now + ask_timeout <= MaxTime
    /\ IF ~qa_chain
       THEN /\ lastOp' = AskResponse([IdleAsk EXCEPT !.question = q], 500,
                                      "RAG service not initialized", {})
            /\ UNCHANGED <<ask, queue>>
       ELSE /\ ask' = [ask EXCEPT ![r] =
                  [IdleAsk EXCEPT !.pc = "answer", !.question = q,
                            !.deadline = now + ask_timeout, !.job = "queued"]]
            /\ queue' = Append(queue, r)
            /\ lastOp' = NoOp
    /\ UNCHANGED <<cfg, embeddings, llm, vectorstore, qa_chain, faiss_index,
                   documents_dir, requests_dir, now, orphans, submitted>>

\* A free worker thread takes the oldest queued call and runs its retrieval
\* against the index as it is then: the chain's retriever for the answer's
\* context, self.retriever for the sources.
WorkerStart(r) ==
    /\ queue # << >> /\ Head(queue) = r
    /\ Busy < max_workers
    /\ queue' = Tail(queue)
    /\ ask' = [ask EXCEPT ![r] =
          IF @.pc = "answer"
          THEN [@ EXCEPT !.job = "running",
                         !.ctx = Retrieve(ask[r].question, vectorstore.chunks)]
          ELSE [@ EXCEPT !.job = "running",
                         !.docs = Retrieve(ask[r].question, vectorstore.chunks)]]
    /\ lastOp' = NoOp
    /\ UNCHANGED <<cfg, embeddings, llm, vectorstore, qa_chain, faiss_index,
                   documents_dir, requests_dir, now, orphans, submitted>>

\* The call returns or raises in its thread (a call that hangs never does).
WorkerDone(r, ok) ==
    /\ ask[r].job = "running"
    /\ ask' = [ask EXCEPT ![r].job = IF ok THEN "ok" ELSE "err"]
    /\ lastOp' = NoOp
    /\ UNCHANGED <<cfg, embeddings, llm, vectorstore, qa_chain, faiss_index,
                   documents_dir, requests_dir, now, queue, orphans, submitted>>

\* The call of a cancelled request ends: nobody reads its result, its worker
\* is free again.
OrphanDone ==
    /\ orphans > 0
    /\ orphans' = orphans - 1
    /\ lastOp' = NoOp
    /\ UNCHANGED <<cfg, embeddings, llm, vectorstore, qa_chain, faiss_index,
                   documents_dir, requests_dir, now, ask, queue, submitted>>

\* query resumes with the answer and hands the second retrieval to the
\* executor.  Once the timer is due the loop runs wait_for's cancellation
\* right behind this step, so only QueryTimeout is taken then.
QueryGotAnswer(r) ==
    /\ ask[r].pc = "answer" /\ ask[r].job = "ok"
    /\ now < ask[r].deadline
    /\ ask' = [ask EXCEPT ![r] = [@ EXCEPT !.pc = "docs", !.job = "queued"]]
    /\ queue' = Append(queue, r)
    /\ lastOp' = NoOp
    /\ UNCHANGED <<cfg, embeddings, llm, vectorstore, qa_chain, faiss_index,
                   documents_dir, requests_dir, now, orphans, submitted>>

\* query resumes with the documents and returns; ask_question answers 200.
QueryReturn(r) ==
    /\ ask[r].pc = "docs" /\ ask[r].job = "ok"
    /\ ask' = [ask EXCEPT ![r] = IdleAsk]
    /\ lastOp' = AskResponse(ask[r], 200, "answer", Sources(ask[r].docs))
    /\ UNCHANGED <<cfg, embeddings, llm, vectorstore, qa_chain, faiss_index,
                   documents_dir, requests_dir, now, queue, orphans, submitted>>

\* An executor call raised: query wraps it, ask_question answers 500.
QueryRaise(r) ==
    /\ InFlight(r) /\ ask[r].job = "err"
    /\ ask' = [ask EXCEPT ![r] = IdleAsk]
    /\ lastOp' = AskResponse(ask[r], 500, "Error querying RAG system", {})
    /\ UNCHANGED <<cfg, embeddings, llm, vectorstore, qa_chain, faiss_index,
                   documents_dir, requests_dir, now, queue, orphans, submitted>>

\* wait_for's timer is processed: query is cancelled (a call still queued is
\* dropped, a running thread is left running) and ask_question answers 504.
QueryTimeout(r) ==
    /\ InFlight(r)
    /\ now >= ask[r].deadline
    /\ ask' = [ask EXCEPT ![r] = IdleAsk]
    /\ orphans' = IF ask[r].job = "running" THEN orphans + 1 ELSE orphans
    /\ queue' = SelectSeq(queue, LAMBDA x : x # r)
    /\ lastOp' = AskResponse(ask[r], 504, "Query timed out", {})
    /\ UNCHANGED <<cfg, embeddings, llm, vectorstore, qa_chain, faiss_index,
                   documents_dir, requests_dir, now, submitted>>

(***************************************************************************)
(* Time passes while the event loop is idle: no finished call waits for    *)
(* its continuation.  A due timer is the next thing the idle loop runs, so *)
(* the clock does not pass an armed deadline.                              *)
(***************************************************************************)
LoopIdle == \A r \in DOMAIN ask : ask[r].job \notin {"ok", "err"}

\* One second passes.
Tick ==
    /\ now < MaxSeconds
    /\ LoopIdle
    /\ \A t \in Deadlines : now + 1 <= t
    /\ now' = now + 1
    /\ lastOp' = NoOp
    /\ UNCHANGED <<cfg, embeddings, llm, vectorstore, qa_chain, faiss_index,
                   documents_dir, requests_dir, ask, queue, orphans, submitted>>

\* Nothing arrives until the earliest armed timer is due.
Sleep ==
    /\ Deadlines # {}
    /\ LoopIdle
    /\ \A t \in Deadlines : now < t
    /\ now' = CHOOSE t \in Deadlines : \A u \in Deadlines : t <= u
    /\ lastOp' = NoOp
    /\ UNCHANGED <<cfg, embeddings, llm, vectorstore, qa_chain, faiss_index,
                   documents_dir, requests_dir, ask, queue, orphans, submitted>>

(***************************************************************************)
(* The server is stopped with no request in flight and started again:      *)
(* a new RAGService over the same configuration and directories.           *)
(***************************************************************************)
Restart ==
    /\ \A r \in DOMAIN ask : ~InFlight(r)
    /\ LET new == Initialize(cfg, faiss_index)
       IN  /\ embeddings' = new.embeddings
           /\ llm' = new.llm
           /\ vectorstore' = new.vectorstore
           /\ qa_chain' = new.qa_chain
    /\ ask' = [r \in DOMAIN ask |-> IdleAsk]
    /\ queue' = << >>
    /\ orphans' = 0
    /\ lastOp' = Response("restart", 0, "")
    /\ UNCHANGED <<cfg, faiss_index, documents_dir, requests_dir, now, submitted>>

Upload ==
    \E u \in Uploads, s \in BOOLEAN, d \in 0..MaxIndexSecs :
        upload_bylaws(u.filename, u.content, s, d)

Submit == \E n \in Homeowners, f \in Fractions : submit_change_request(n, f)

Ask == \E r \in 1..MaxAsk, q \in Questions : ask_question(r, q)

Worker ==
    \/ \E r \in 1..MaxAsk : WorkerStart(r)
    \/ \E r \in 1..MaxAsk, ok \in BOOLEAN : WorkerDone(r, ok)
    \/ OrphanDone

Query ==
    \/ \E r \in 1..MaxAsk : QueryGotAnswer(r)
    \/ \E r \in 1..MaxAsk : QueryReturn(r)
    \/ \E r \in 1..MaxAsk : QueryRaise(r)
    \/ \E r \in 1..MaxAsk : QueryTimeout(r)

\* The whole server.
Next == Upload \/ Submit \/ Ask \/ Worker \/ Query \/ Tick \/ Sleep \/ Restart

Spec == Init /\ [][Next]_vars

\* The knowledge base: uploads and restarts.
NextStore == Upload \/ Restart

SpecStore == Init /\ [][NextStore]_vars

\* Change requests over time.
NextSubmit == Submit \/ Tick

SpecSubmit == Init /\ [][NextSubmit]_vars

\* Questions, with uploads and restarts meanwhile: the whole server but for
\* the change requests, which share no state with the rest.
NextAsk == Upload \/ Ask \/ Worker \/ Query \/ Tick \/ Sleep \/ Restart

SpecAsk == Init /\ [][NextAsk]_vars

(***************************************************************************)
(* The claims.                                                             *)
(***************************************************************************)
AskAnswered == lastOp.op = "ask"

\* The query of the request just answered had been handed to the executor.
QueryRan == AskAnswered /\ lastOp.request.pc # "idle"

\* C1: a POST /api/ask whose query has not completed within 120 seconds of
\* the request's start ends with HTTP 504, never with 200 or 500, whatever
\* the executor's calls and the other requests do.
C1_LateQueryEnds504 ==
    (QueryRan /\ lastOp.at > lastOp.request.deadline) => lastOp.status = 504

\* C2: the request_ids returned so far are distinct, requests/ holds exactly
\* one file per successful submission, and the file named by a returned
\* request_id holds the data of the submission that received that id.
C2_OneFilePerRequest ==
    /\ \A i, j \in DOMAIN submitted :
          i # j => submitted[i].request_id # submitted[j].request_id
    /\ Cardinality(DOMAIN requests_dir.files) = Len(submitted)
    /\ \A i \in DOMAIN submitted :
          /\ RequestFile(submitted[i].request_id) \in DOMAIN requests_dir.files
          /\ requests_dir.files[RequestFile(submitted[i].request_id)]
                = submitted[i].data

\* C3: while no index has been persisted (none loaded at start-up, no
\* successful index_document since) qa_chain is None and no Answer is
\* returned; and a POST /api/ask that finds qa_chain None is answered 500
\* "RAG service not initialized", hands nothing to the executor and leaves
\* the service, the index on disk and the other requests as they were.
C3_NoAnswerWithoutIndex ==
    /\ [](~faiss_index.present =>
            ~qa_chain /\ ~(AskAnswered /\ lastOp.status = 200))
    /\ [][(~qa_chain /\ Ask) =>
            /\ lastOp'.op = "ask" /\ lastOp'.status = 500
            /\ lastOp'.detail = "RAG service not initialized"
            /\ UNCHANGED <<ask, queue, orphans, embeddings, llm, vectorstore,
                           qa_chain, faiss_index, documents_dir>>]_vars

\* An ask refused although chunks are in memory (their save had failed, or
\* there is no llm).
C3_Witness ==
    /\ AskAnswered /\ lastOp.status = 500
    /\ lastOp.detail = "RAG service not initialized"
    /\ vectorstore.present

\* C4: a restart that follows a successful index_document loads a vectorstore
\* holding exactly the chunks held in memory before it, and is_initialized()
\* keeps its value.
C4_RestartKeepsIndex ==
    [][(lastOp.op = "upload" /\ lastOp.status = 200 /\ Restart) =>
          /\ vectorstore' = vectorstore
          /\ is_initialized' = is_initialized]_vars

\* An upload whose name does not end with ".pdf" or whose content is empty.
InvalidUpload ==
    \E u \in Uploads, s \in BOOLEAN, d \in 0..MaxIndexSecs :
        /\ u.filename \notin {A_pdf, B_pdf} \/ u.content = << >>
        /\ upload_bylaws(u.filename, u.content, s, d)

\* C5: an upload whose file name does not end with ".pdf", or whose content is
\* empty, is answered 400, writes no file under documents/, and leaves the
\* vectorstore, qa_chain and the persisted index unchanged.
C5_InvalidUploadRejected ==
    [][InvalidUpload =>
          /\ lastOp'.op = "upload" /\ lastOp'.status = 400
          /\ documents_dir'.files = documents_dir.files
          /\ UNCHANGED <<vectorstore, qa_chain, faiss_index, now>>]_vars

\* An empty upload refused by a service that holds an index.
C5_Witness ==
    /\ lastOp.op = "upload" /\ lastOp.status = 400
    /\ lastOp.detail = "Uploaded file is empty"
    /\ vectorstore.present /\ faiss_index.present
    /\ DOMAIN documents_dir.files # {}

UploadSucceeded == lastOp.op = "upload" /\ lastOp.status = 200

C7_SourcesAreTheContext ==
    (AskAnswered /\ lastOp.status = 200) =>
        {lastOp.request.docs[i] : i \in DOMAIN lastOp.request.docs}
            = {lastOp.request.ctx[i] : i \in DOMAIN lastOp.request.ctx}

\* C8: the chunks in memory are exactly the chunks of the persisted index
\* (no handler is ever part-way through index_document between two steps),
\* and an upload whose index_document raised leaves the vectorstore and
\* qa_chain as they were.
C8_MemoryMatchesDisk ==
    /\ [](vectorstore.chunks = faiss_index.chunks)
    /\ [][(lastOp'.op = "upload" /\ lastOp'.status = 500) =>
            UNCHANGED <<vectorstore, qa_chain>>]_vars

====
